---------------------------- MODULE Spec2Model ----------------------------
(***************************************************************************)
(* Model of the two Ansible modules of ansible-pan:                        *)
(*   library/panos_query.py     the rule query (rule filter)               *)
(*   library/panos_add_rule.py  the rule creator                           *)
(*                                                                         *)
(* Python values are written as follows.                                   *)
(*   - zone, tag, service and device-group names, protocols: TLA+ strings. *)
(*     A parameter that is None (or empty) is falsy in every test the code *)
(*     makes of it; it is written "" (NoStr).                              *)
(*   - address texts (rule address tokens, address object names and        *)
(*     values, queried IPs): records, tokenised as the ipaddress module    *)
(*     reads them: a name, "a.b.c.d", "a.b.c.d/len", "a.b.c.d-e.f.g.h".    *)
(*   - port texts (queried ports, port specs of service objects): tuples   *)
(*     of one-character strings; the empty tuple is the falsy value.       *)
(*   - the outcome of a Python call that may raise: "True", "False" or the *)
(*     name of the exception.                                              *)
(***************************************************************************)
EXTENDS Integers, Sequences, FiniteSets, TLC

\* Longest rulebase the runs are given.
MaxRules == 2

NoStr == ""
NoPort == <<>>
NoText == [form |-> "none"]

Name(s) == [form |-> "name", s |-> s]
Ip(o) == [form |-> "ip", o |-> o]
Cidr(o, len) == [form |-> "cidr", o |-> o, len |-> len]
Range(lo, hi) == [form |-> "range", lo |-> lo, hi |-> hi]

ANY == Name("any")

RECURSIVE Pow2(_)
Pow2(n) == IF n = 0 THEN 1 ELSE 2 * Pow2(n - 1)

(***************************************************************************)
(* The ipaddress module, as far as the query uses it.                      *)
(***************************************************************************)
ValidOctets(o) == Len(o) = 4 /\ \A i \in 1..4 : o[i] \in 0..255

PackOctets(o) == ((o[1] * 256 + o[2]) * 256 + o[3]) * 256 + o[4]

\* ipaddress.ip_address(text): the integer of a dotted quad, ValueError otherwise.
ip_address(text) ==
    IF text.form = "ip" /\ ValidOctets(text.o)
    THEN [ok |-> TRUE, v |-> PackOctets(text.o)]
    ELSE [ok |-> FALSE, v |-> 0]

\* ipaddress.ip_network(text), strict: "a.b.c.d" is a /32; "a.b.c.d/len" must
\* have no host bit set; anything else is a ValueError.
ip_network(text) ==
    IF text.form = "ip" /\ ValidOctets(text.o)
    THEN [ok |-> TRUE, lo |-> PackOctets(text.o), hi |-> PackOctets(text.o)]
    ELSE IF text.form = "cidr" /\ ValidOctets(text.o) /\ text.len \in 1..32
              /\ PackOctets(text.o) % Pow2(32 - text.len) = 0
         THEN [ok |-> TRUE, lo |-> PackOctets(text.o),
               hi |-> PackOctets(text.o) + Pow2(32 - text.len) - 1]
         ELSE [ok |-> FALSE, lo |-> 0, hi |-> 0]

\* `ip in net`
InNetwork(ip, net) == net.lo <= ip /\ ip <= net.hi

(***************************************************************************)
(* str.split, `in` and int() on port texts.                                *)
(***************************************************************************)
DigitChars == <<"0", "1", "2", "3", "4", "5", "6", "7", "8", "9">>

IsDigit(c) == \E i \in 1..10 : DigitChars[i] = c

DigitVal(c) == (CHOOSE i \in 1..10 : DigitChars[i] = c) - 1

Contains(s, c) == \E i \in 1..Len(s) : s[i] = c

\* first index of c in s, Len(s)+1 when absent
RECURSIVE IndexOf(_, _, _)
IndexOf(s, c, i) ==
    IF i > Len(s) THEN i
    ELSE IF s[i] = c THEN i ELSE IndexOf(s, c, i + 1)

\* s.split(c)
RECURSIVE Split(_, _)
Split(s, c) ==
    LET k == IndexOf(s, c, 1) IN
    IF k > Len(s) THEN <<s>>
    ELSE <<SubSeq(s, 1, k - 1)>> \o Split(SubSeq(s, k + 1, Len(s)), c)

IsNumeric(s) == Len(s) > 0 /\ \A i \in 1..Len(s) : IsDigit(s[i])

\* int(s) of a numeric text
RECURSIVE IntOf(_)
IntOf(s) ==
    IF Len(s) = 0 THEN 0
    ELSE 10 * IntOf(SubSeq(s, 1, Len(s) - 1)) + DigitVal(s[Len(s)])


(***************************************************************************)
(* The snapshot of the device: what the refreshall calls of main fetch.    *)
(* Objects are records; cls is the pandevice class.                        *)
(***************************************************************************)
AddressObject(name, type, value) ==
    [cls |-> "AddressObject", name |-> Name(name), type |-> type, value |-> value,
     static_value |-> <<>>]

\* a dynamic group has no static_value (None, falsy): written <<>>
AddressGroup(name, static_value) ==
    [cls |-> "AddressGroup", name |-> Name(name), type |-> "", value |-> NoText,
     static_value |-> static_value]

\* a port spec that is not set on the device is None: written <<>>
ServiceObject(name, protocol, source_port, destination_port) ==
    [cls |-> "ServiceObject", name |-> name, protocol |-> protocol,
     source_port |-> source_port, destination_port |-> destination_port,
     value |-> <<>>]

ServiceGroup(name, value) ==
    [cls |-> "ServiceGroup", name |-> name, protocol |-> "",
     source_port |-> <<>>, destination_port |-> <<>>, value |-> value]

Tag(name, color) == [cls |-> "Tag", name |-> name, color |-> color]

\* Python's False, as returned by the lookups that find nothing
FalseObj == [cls |-> "bool"]

\* the exception a lookup raised
Raised(exc) == [cls |-> "raise", exc |-> exc]

Firewall == "Firewall"
Panorama == "Panorama"

\* what device.refresh_devices() returns on the manager
DeviceList ==
    << [cls |-> "DeviceGroup", name |-> "DeviceGroupA"],
       [cls |-> "Firewall", name |-> "FW-1"],
       [cls |-> "DeviceGroup", name |-> "DeviceGroupC"] >>

\* global scope: the children of the device after main's refreshall calls
GlobalAddresses ==
    << AddressObject("web-net", "ip-netmask", Cidr(<<10, 0, 0, 0>>, 24)),
       AddressObject("db-range", "ip-range", Range(<<10, 0, 1, 10>>, <<10, 0, 1, 20>>)),
       AddressObject("www", "fqdn", Name("www.example.com")),
       AddressGroup("web-grp", <<Name("www"), Name("web-net")>>),
       AddressGroup("db-grp", <<Name("db-range")>>),
       AddressGroup("all-db", <<Name("db-grp")>>),
       AddressGroup("dyn-grp", <<>>),
       AddressGroup("only-web", <<Name("web-net")>>),
       AddressGroup("only-www", <<Name("www")>>) >>

GlobalServices ==
    << ServiceObject("svc-web", "tcp", <<>>,
           <<"4","4","3",",","8","0","0","0","-","8","1","0","0">>),
       ServiceObject("svc-dns", "udp", <<"1","0","2","4","-","2","0","4","8">>,
           <<"5","3">>),
       ServiceObject("svc-hi", "tcp", <<"2","0","0","0">>, <<"8","0","5","0">>),
       ServiceGroup("svc-grp", <<"svc-hi", "svc-dns">>),
       ServiceGroup("svc-all", <<"svc-grp">>) >>

GlobalTags == << Tag("prod", "red"), Tag("test", "blue") >>

\* device-group scope: the children of the validated device group
GroupAddresses(group) ==
    IF group = "DeviceGroupA"
    THEN << AddressObject("dg-net", "ip-netmask", Cidr(<<10, 0, 0, 0>>, 16)),
            AddressObject("web-net", "ip-netmask", Cidr(<<10, 9, 0, 0>>, 24)),
            AddressGroup("only-dg", <<Name("dg-net")>>),
            AddressGroup("dg-web", <<Name("web-net")>>) >>
    ELSE << >>

GroupServices(group) ==
    IF group = "DeviceGroupA"
    THEN << ServiceObject("dg-svc", "tcp", <<"2","0","0","0">>, <<"4","4","3">>),
            ServiceObject("svc-hi", "tcp", <<"9","0","0","0">>, <<"9","0","5","0">>) >>
    ELSE << >>

GroupTags(group) ==
    IF group = "DeviceGroupA" THEN << Tag("dg-tag", "green"), Tag("prod", "green") >> ELSE << >>

(***************************************************************************)
(* PanObject.find(name, class_type): the first child of that class with    *)
(* that name, None when there is none.                                     *)
(***************************************************************************)
RECURSIVE FindFrom(_, _, _, _)
FindFrom(children, name, cls, i) ==
    IF i > Len(children) THEN FalseObj
    ELSE IF children[i].cls = cls /\ children[i].name = name THEN children[i]
         ELSE FindFrom(children, name, cls, i + 1)

find(children, name, cls) == FindFrom(children, name, cls, 1)

Found(match) == match.cls # "bool"

\* get_devicegroup(device, devicegroup): the group's name, "" when not found
RECURSIVE GroupFrom(_, _)
GroupFrom(devicegroup, i) ==
    IF i > Len(DeviceList) THEN NoStr
    ELSE IF DeviceList[i].cls = "DeviceGroup" /\ DeviceList[i].name = devicegroup
         THEN DeviceList[i].name
         ELSE GroupFrom(devicegroup, i + 1)

\* get_devicegroup without the isinstance test of line 109
get_devicegroup_any_device(devicegroup) ==
    IF \E i \in 1..Len(DeviceList) : DeviceList[i].name = devicegroup
    THEN devicegroup ELSE NoStr

get_devicegroup(devicegroup) == GroupFrom(devicegroup, 1)

\* get_object that searches the device group before the global scope
get_object_group_first(device, dev_group, obj_name) ==
    IF Found(find(GroupAddresses(dev_group), obj_name, "AddressObject"))
    THEN find(GroupAddresses(dev_group), obj_name, "AddressObject")
    ELSE IF Found(find(GroupAddresses(dev_group), obj_name, "AddressGroup"))
    THEN find(GroupAddresses(dev_group), obj_name, "AddressGroup")
    ELSE IF Found(find(GlobalAddresses, obj_name, "AddressObject"))
    THEN find(GlobalAddresses, obj_name, "AddressObject")
    ELSE IF Found(find(GlobalAddresses, obj_name, "AddressGroup"))
    THEN find(GlobalAddresses, obj_name, "AddressGroup")
    ELSE IF device = Panorama /\ dev_group = NoStr THEN Raised("AttributeError")
    ELSE FalseObj

\* get_object(device, dev_group, obj_name); dev_group is "" when main left it None
get_object(device, dev_group, obj_name) ==
    IF Found(find(GlobalAddresses, obj_name, "AddressObject"))
    THEN find(GlobalAddresses, obj_name, "AddressObject")
    ELSE IF Found(find(GlobalAddresses, obj_name, "AddressGroup"))
    THEN find(GlobalAddresses, obj_name, "AddressGroup")
    ELSE IF device = Panorama
    THEN IF dev_group = NoStr THEN Raised("AttributeError")
         ELSE IF Found(find(GroupAddresses(dev_group), obj_name, "AddressObject"))
         THEN find(GroupAddresses(dev_group), obj_name, "AddressObject")
         ELSE IF Found(find(GroupAddresses(dev_group), obj_name, "AddressGroup"))
         THEN find(GroupAddresses(dev_group), obj_name, "AddressGroup")
         ELSE FalseObj
    ELSE FalseObj

\* addr_in_obj with the bounds of an ip-range included (lower <= ip <= upper)
addr_in_obj_inclusive(addr, obj) ==
    IF ~ip_address(addr).ok THEN "ValueError"
    ELSE LET ip == ip_address(addr).v IN
         IF obj.cls = "AddressObject"
         THEN IF obj.type = "ip-netmask"
              THEN IF ~ip_network(obj.value).ok THEN "ValueError"
                   ELSE IF InNetwork(ip, ip_network(obj.value)) THEN "True" ELSE "False"
              ELSE IF obj.type = "ip-range"
              THEN IF obj.value.form = "range"
                   THEN IF ~ip_address(Ip(obj.value.lo)).ok \/ ~ip_address(Ip(obj.value.hi)).ok
                        THEN "ValueError"
                        ELSE IF ip_address(Ip(obj.value.lo)).v <= ip
                                /\ ip <= ip_address(Ip(obj.value.hi)).v
                             THEN "True" ELSE "False"
                   ELSE IF ~ip_address(obj.value).ok THEN "ValueError" ELSE "IndexError"
              ELSE "False"
         ELSE "False"

\* addr_in_obj(addr, obj): "True", "False" or the exception raised
addr_in_obj(addr, obj) ==
    IF ~ip_address(addr).ok THEN "ValueError"
    ELSE LET ip == ip_address(addr).v IN
         IF obj.cls = "AddressObject"
         THEN IF obj.type = "ip-netmask"
              THEN IF ~ip_network(obj.value).ok THEN "ValueError"
                   ELSE IF InNetwork(ip, ip_network(obj.value)) THEN "True" ELSE "False"
              ELSE IF obj.type = "ip-range"
              THEN IF obj.value.form = "range"
                   THEN IF ~ip_address(Ip(obj.value.lo)).ok \/ ~ip_address(Ip(obj.value.hi)).ok
                        THEN "ValueError"
                        ELSE IF ip_address(Ip(obj.value.lo)).v < ip
                                /\ ip < ip_address(Ip(obj.value.hi)).v
                             THEN "True" ELSE "False"
                   ELSE IF ~ip_address(obj.value).ok THEN "ValueError" ELSE "IndexError"
              ELSE "False"
         ELSE "False"

\* get_service(device, dev_group, obj_name)
get_service(device, dev_group, obj_name) ==
    IF Found(find(GlobalServices, obj_name, "ServiceObject"))
    THEN find(GlobalServices, obj_name, "ServiceObject")
    ELSE IF Found(find(GlobalServices, obj_name, "ServiceGroup"))
    THEN find(GlobalServices, obj_name, "ServiceGroup")
    ELSE IF device = Panorama
    THEN IF dev_group = NoStr THEN Raised("AttributeError")
         ELSE IF Found(find(GroupServices(dev_group), obj_name, "ServiceObject"))
         THEN find(GroupServices(dev_group), obj_name, "ServiceObject")
         ELSE IF Found(find(GroupServices(dev_group), obj_name, "ServiceGroup"))
         THEN find(GroupServices(dev_group), obj_name, "ServiceGroup")
         ELSE FalseObj
    ELSE FalseObj

\* PortElement with the bounds of a port range included
PortElement_inclusive(x, port, protocol, obj) ==
    IF Contains(x, "-")
    THEN LET port_range == Split(x, "-") IN
         IF ~IsNumeric(port_range[1]) \/ ~IsNumeric(port_range[2]) \/ ~IsNumeric(port)
         THEN "ValueError"
         ELSE IF IntOf(port_range[1]) <= IntOf(port) /\ IntOf(port) <= IntOf(port_range[2])
                 /\ obj.protocol = protocol
              THEN "True" ELSE "False"
    ELSE IF port = x /\ obj.protocol = protocol THEN "True" ELSE "False"

\* one element x of a port spec, as both branches of port_in_svc treat it
PortElement(x, port, protocol, obj) ==
    IF Contains(x, "-")
    THEN LET port_range == Split(x, "-") IN
         IF ~IsNumeric(port_range[1]) \/ ~IsNumeric(port_range[2]) \/ ~IsNumeric(port)
         THEN "ValueError"
         ELSE IF IntOf(port_range[1]) < IntOf(port) /\ IntOf(port) < IntOf(port_range[2])
                 /\ obj.protocol = protocol
              THEN "True" ELSE "False"
    ELSE IF port = x /\ obj.protocol = protocol THEN "True" ELSE "False"

\* the for loop of port_in_svc: the first element that returns True or raises
RECURSIVE PortLoop(_, _, _, _, _)
PortLoop(elems, i, port, protocol, obj) ==
    IF i > Len(elems) THEN "False"
    ELSE IF PortElement(elems[i], port, protocol, obj) = "False"
         THEN PortLoop(elems, i + 1, port, protocol, obj)
         ELSE PortElement(elems[i], port, protocol, obj)

\* port_in_svc(orientation, port, protocol, obj): "True", "False" or the exception
port_in_svc(orientation, port, protocol, obj) ==
    IF orientation = "source"
    THEN IF obj.cls # "ServiceObject" \/ obj.source_port = <<>> THEN "AttributeError"
         ELSE PortLoop(Split(obj.source_port, ","), 1, port, protocol, obj)
    ELSE IF orientation = "destination"
    THEN IF obj.cls # "ServiceObject" \/ obj.destination_port = <<>> THEN "AttributeError"
         ELSE PortLoop(Split(obj.destination_port, ","), 1, port, protocol, obj)
    ELSE "False"

\* get_tag(device, dev_group, obj_name)
get_tag(device, dev_group, obj_name) ==
    IF Found(find(GlobalTags, obj_name, "Tag"))
    THEN find(GlobalTags, obj_name, "Tag")
    ELSE IF device = Panorama
    THEN IF dev_group = NoStr THEN Raised("AttributeError")
         ELSE IF Found(find(GroupTags(dev_group), obj_name, "Tag"))
         THEN find(GroupTags(dev_group), obj_name, "Tag")
         ELSE FalseObj
    ELSE FalseObj

(***************************************************************************)
(* The body of main's loop over the rules (panos_query.py), one operator   *)
(* per criterion.  Each gives "True" or "False", or the exception raised   *)
(* while it was worked out.                                                *)
(***************************************************************************)
InList(list, x) == \E i \in 1..Len(list) : list[i] = x

IsOutcome(r) == r \in {"True", "False"}

\* lines 312-320
source_zone_match(rule, source_zone) ==
    IF InList(rule.fromzone, "any") THEN "True"
    ELSE IF \E i \in 1..Len(rule.fromzone) : rule.fromzone[i] = source_zone
         THEN "True" ELSE "False"

\* lines 322-330
destination_zone_match(rule, destination_zone) ==
    IF InList(rule.tozone, "any") THEN "True"
    ELSE IF \E i \in 1..Len(rule.tozone) : rule.tozone[i] = destination_zone
         THEN "True" ELSE "False"

\* AddressMembers that looks the members up in the global scope only
RECURSIVE AddressMembers_global_only(_, _, _, _, _, _)
AddressMembers_global_only(device, dev_group, addr, members, i, acc) ==
    IF i > Len(members) THEN acc
    ELSE LET member == get_object(Firewall, NoStr, members[i]) IN
         LET r == addr_in_obj(addr, member) IN
         IF ~IsOutcome(r) THEN r
         ELSE AddressMembers_global_only(device, dev_group, addr, members, i + 1,
                                         IF r = "True" THEN "True" ELSE acc)

\* the loop over the members of an address group (lines 347-350, 368-371)
RECURSIVE AddressMembers(_, _, _, _, _, _)
AddressMembers(device, dev_group, addr, members, i, acc) ==
    IF i > Len(members) THEN acc
    ELSE LET member == get_object(device, dev_group, members[i]) IN
         IF member.cls = "raise" THEN member.exc
         ELSE LET r == addr_in_obj(addr, member) IN
              IF ~IsOutcome(r) THEN r
              ELSE AddressMembers(device, dev_group, addr, members, i + 1,
                                  IF r = "True" THEN "True" ELSE acc)

\* one address token of the rule (lines 338-350, 359-371)
AddressToken(device, dev_group, addr, object_string) ==
    LET found == get_object(device, dev_group, object_string)
        obj == IF found = FalseObj /\ ip_network(object_string).ok
               THEN [cls |-> "IPv4Network"]
               ELSE found
    IN
    IF found.cls = "raise" THEN found.exc
    ELSE IF obj = FalseObj THEN "False"
    ELSE IF obj.cls = "AddressObject" /\ addr_in_obj(addr, obj) # "False"
    THEN addr_in_obj(addr, obj)
    ELSE IF obj.cls = "AddressGroup" /\ obj.static_value # <<>>
    THEN AddressMembers(device, dev_group, addr, obj.static_value, 1, "False")
    ELSE "False"

\* the loop over the address tokens (lines 337-350, 358-371)
RECURSIVE AddressTokens(_, _, _, _, _, _)
AddressTokens(device, dev_group, addr, tokens, i, acc) ==
    IF i > Len(tokens) THEN acc
    ELSE LET r == AddressToken(device, dev_group, addr, tokens[i]) IN
         IF ~IsOutcome(r) THEN r
         ELSE AddressTokens(device, dev_group, addr, tokens, i + 1,
                            IF r = "True" THEN "True" ELSE acc)

\* lines 332-351
source_ip_match(device, dev_group, rule, source_ip) ==
    IF InList(rule.source, ANY) THEN "True"
    ELSE AddressTokens(device, dev_group, source_ip, rule.source, 1, "False")

\* lines 353-372
destination_ip_match(device, dev_group, rule, destination_ip) ==
    IF InList(rule.destination, ANY) THEN "True"
    ELSE AddressTokens(device, dev_group, destination_ip, rule.destination, 1, "False")

\* the loop over the members of a service group (lines 388-391, 408-411)
RECURSIVE ServiceMembers(_, _, _, _, _, _, _, _)
ServiceMembers(device, dev_group, orientation, port, protocol, members, i, acc) ==
    IF i > Len(members) THEN acc
    ELSE LET member == get_service(device, dev_group, members[i]) IN
         IF member.cls = "raise" THEN member.exc
         ELSE LET r == port_in_svc(orientation, port, protocol, member) IN
              IF ~IsOutcome(r) THEN r
              ELSE ServiceMembers(device, dev_group, orientation, port, protocol,
                                  members, i + 1, IF r = "True" THEN "True" ELSE acc)

\* one service token of the rule (lines 383-391, 403-411)
ServiceToken(device, dev_group, orientation, port, protocol, object_string) ==
    LET obj == get_service(device, dev_group, object_string) IN
    IF obj.cls = "raise" THEN obj.exc
    ELSE IF obj.cls = "ServiceObject"
    THEN port_in_svc(orientation, port, protocol, obj)
    ELSE IF obj.cls = "ServiceGroup"
    THEN ServiceMembers(device, dev_group, orientation, port, protocol, obj.value, 1, "False")
    ELSE "False"

\* the loop over the service tokens (lines 382-391, 402-411)
RECURSIVE ServiceTokens(_, _, _, _, _, _, _, _)
ServiceTokens(device, dev_group, orientation, port, protocol, tokens, i, acc) ==
    IF i > Len(tokens) THEN acc
    ELSE LET r == ServiceToken(device, dev_group, orientation, port, protocol, tokens[i]) IN
         IF ~IsOutcome(r) THEN r
         ELSE ServiceTokens(device, dev_group, orientation, port, protocol, tokens, i + 1,
                            IF r = "True" THEN "True" ELSE acc)

\* lines 374-392
source_port_match(device, dev_group, rule, source_port, protocol) ==
    IF InList(rule.service, "any") THEN "True"
    ELSE IF InList(rule.service, "application-default") THEN "False"
    ELSE ServiceTokens(device, dev_group, "source", source_port, protocol,
                       rule.service, 1, "False")

\* destination_port_match without the 'application-default' branch of line 399
destination_port_match_no_default(device, dev_group, rule, destination_port, protocol) ==
    IF InList(rule.service, "any") THEN "True"
    ELSE ServiceTokens(device, dev_group, "destination", destination_port, protocol,
                       rule.service, 1, "False")

\* lines 394-412
destination_port_match(device, dev_group, rule, destination_port, protocol) ==
    IF InList(rule.service, "any") THEN "True"
    ELSE IF InList(rule.service, "application-default") THEN "False"
    ELSE ServiceTokens(device, dev_group, "destination", destination_port, protocol,
                       rule.service, 1, "False")

\* lines 414-420: "return" when main executes `return True` at line 419
RECURSIVE TagNames(_, _, _, _, _)
TagNames(device, dev_group, tag, names, i) ==
    IF i > Len(names) THEN "False"
    ELSE LET obj == get_tag(device, dev_group, names[i]) IN
         IF obj.cls = "raise" THEN obj.exc
         ELSE IF Found(obj) /\ obj.name = tag THEN "return"
         ELSE TagNames(device, dev_group, tag, names, i + 1)

tag_match(device, dev_group, rule, tag) == TagNames(device, dev_group, tag, rule.tag, 1)

\* what the criteria append to hitlist, in the order of lines 312-420; an entry
\* that is no boolean is where the iteration stopped
Evaluated(device, dev_group, p, rule) ==
    (IF p.source_zone # NoStr
     THEN <<source_zone_match(rule, p.source_zone)>> ELSE <<>>)
    \o (IF p.destination_zone # NoStr
        THEN <<destination_zone_match(rule, p.destination_zone)>> ELSE <<>>)
    \o (IF p.source_ip # NoText
        THEN <<source_ip_match(device, dev_group, rule, p.source_ip)>> ELSE <<>>)
    \o (IF p.destination_ip # NoText
        THEN <<destination_ip_match(device, dev_group, rule, p.destination_ip)>> ELSE <<>>)
    \o (IF p.source_port # NoPort
        THEN <<source_port_match(device, dev_group, rule, p.source_port, p.protocol)>>
        ELSE <<>>)
    \o (IF p.destination_port # NoPort
        THEN <<destination_port_match(device, dev_group, rule, p.destination_port,
                                      p.protocol)>>
        ELSE <<>>)
    \o (IF p.tag # NoStr THEN <<tag_match(device, dev_group, rule, p.tag)>> ELSE <<>>)

\* the first entry at which the iteration left the loop, "" when it ran through
RECURSIVE Stopped(_, _)
Stopped(entries, i) ==
    IF i > Len(entries) THEN NoStr
    ELSE IF ~IsOutcome(entries[i]) THEN entries[i] ELSE Stopped(entries, i + 1)

\* IsHit that wants at least one criterion to have matched
IsHit_some_criterion(hitlist) == InList(hitlist, "True") /\ ~InList(hitlist, "False")

\* line 423: False not in hitlist
IsHit(hitlist) == ~InList(hitlist, "False")

\* AddHit that keeps the first hit only
AddHit_first_only(hits, hitlist, rule) ==
    IF IsHit(hitlist) /\ hits = <<>> THEN Append(hits, rule) ELSE hits

\* lines 423-424: hitbase.add(rule) when the rule is a hit
AddHit(hits, hitlist, rule) ==
    IF IsHit(hitlist) THEN Append(hits, rule) ELSE hits

(***************************************************************************)
(* The rules the device may hold.                                          *)
(***************************************************************************)
SecurityRule(name, fromzone, tozone, source, destination, service, tag) ==
    [name |-> name, fromzone |-> fromzone, tozone |-> tozone, source |-> source,
     destination |-> destination, service |-> service, tag |-> tag]

RuleCatalogue ==
    { SecurityRule("allow-any", <<"any">>, <<"any">>, <<ANY>>, <<ANY>>, <<"any">>, <<>>),
      SecurityRule("web-in", <<"trust">>, <<"untrust">>,
                   <<Cidr(<<10, 0, 0, 0>>, 24)>>, <<Name("db-range")>>,
                   <<"svc-web">>, <<"prod">>),
      SecurityRule("groups", <<"dmz", "trust">>, <<"any">>,
                   <<Name("web-grp")>>, <<Name("dyn-grp"), Name("all-db")>>,
                   <<"svc-grp">>, <<"test", "prod">>),
      SecurityRule("apps", <<"any">>, <<"untrust">>,
                   <<Name("web-net"), Name("bogus")>>, <<Name("db-grp")>>,
                   <<"application-default", "svc-hi">>, <<>>),
      SecurityRule("dg-rule", <<"dmz">>, <<"untrust">>,
                   <<Name("dg-net")>>, <<Ip(<<10, 0, 1, 15>>)>>,
                   <<"dg-svc", "svc-dns">>, <<"dg-tag">>) }

\* the rulebases the device may hold: rules of distinct names, in any order
Rulebases ==
    { rb \in UNION { [1..n -> RuleCatalogue] : n \in 0..MaxRules } :
        \A i, j \in 1..Len(rb) : rb[i] = rb[j] => i = j }

(***************************************************************************)
(* The parameters of a run.                                                *)
(***************************************************************************)
DeviceGroupNames == {NoStr, "DeviceGroupA", "DeviceGroupB", "FW-1"}

QueryParams ==
    [ source_zone : {NoStr, "trust"},
      destination_zone : {NoStr, "untrust"},
      source_ip : {NoText, Ip(<<10, 0, 0, 5>>)},
      destination_ip : {NoText, Ip(<<10, 0, 1, 15>>)},
      source_port : {NoPort, <<"2","0","0","0">>},
      destination_port : {NoPort, <<"8","0","5","0">>},
      protocol : {NoStr, "tcp", "udp"},
      tag : {NoStr, "prod"},
      devicegroup : DeviceGroupNames ]

\* what a run reports: module.exit_json / module.fail_json with their msg, an
\* uncaught exception, or main returning without reporting ("return")
Result(kind, msg, stdout, changed) ==
    [kind |-> kind, msg |-> msg, stdout |-> stdout, changed |-> changed]

NoResult == Result("none", <<>>, <<>>, FALSE)

VARIABLES
    prog,        \* which module runs: "query" or "add_rule"
    device,      \* the type create_from_device found: Firewall or Panorama
    params,      \* module.params
    rulebase,    \* the rules the device holds
    pc,          \* where main is
    dev_group,   \* panos_query main's dev_group: the validated group, "" for None
    loaded,      \* get_rulebase has run
    rulelist,    \* the rules get_rulebase fetched
    idx,         \* the number of rules the loop has taken up
    hitbase,     \* the children of hitbase
    sec_rule,    \* the rule panos_add_rule built, <<>> before
    result       \* what the run reported

vars == <<prog, device, params, rulebase, pc, dev_group, loaded, rulelist, idx,
          hitbase, sec_rule, result>>

InitQuery ==
    /\ prog = "query"
    /\ device \in {Firewall, Panorama}
    /\ params \in QueryParams
    /\ rulebase \in Rulebases
    /\ pc = "validate"
    /\ dev_group = NoStr
    /\ loaded = FALSE
    /\ rulelist = <<>>
    /\ idx = 0
    /\ hitbase = <<>>
    /\ sec_rule = <<>>
    /\ result = NoResult

\* the module parameters of a query that carries a malformed literal: a queried
\* IP that is no address, a queried port that is no number
MalformedParams ==
    { p \in [ source_zone : {NoStr},
              destination_zone : {NoStr},
              source_ip : {NoText, Ip(<<10, 0, 0, 5>>), Ip(<<10, 0, 0, 256>>)},
              destination_ip : {NoText, Ip(<<10, 0, 1, 15>>), Name("bogus")},
              source_port : {NoPort, <<"2","0","0","0">>, <<"h","t","t","p">>},
              destination_port : {NoPort, <<"8","0","5","0">>, <<"h","t","t","p">>},
              protocol : {"tcp"},
              tag : {NoStr},
              devicegroup : {NoStr, "DeviceGroupA"} ] :
        \/ p.source_ip = Ip(<<10, 0, 0, 256>>)
        \/ p.destination_ip = Name("bogus")
        \/ p.source_port = <<"h","t","t","p">>
        \/ p.destination_port = <<"h","t","t","p">> }

InitQueryMalformed ==
    /\ prog = "query"
    /\ device \in {Firewall, Panorama}
    /\ params \in MalformedParams
    /\ rulebase \in Rulebases
    /\ pc = "validate"
    /\ dev_group = NoStr
    /\ loaded = FALSE
    /\ rulelist = <<>>
    /\ idx = 0
    /\ hitbase = <<>>
    /\ sec_rule = <<>>
    /\ result = NoResult

NotFoundMsg(devicegroup) ==
    <<"'", devicegroup, "' device group not found in Panorama. Is the name correct?">>

\* panos_query main, lines 285-300
QueryValidate ==
    /\ prog = "query" /\ pc = "validate"
    /\ IF params.devicegroup # NoStr /\ device = Panorama
       THEN IF get_devicegroup(params.devicegroup) # NoStr
            THEN /\ dev_group' = get_devicegroup(params.devicegroup)
                 /\ pc' = "rulebase"
                 /\ result' = result
            ELSE /\ dev_group' = NoStr
                 /\ pc' = "done"
                 /\ result' = Result("fail_json", NotFoundMsg(params.devicegroup),
                                      <<>>, FALSE)
       ELSE /\ dev_group' = NoStr
            /\ pc' = "rulebase"
            /\ result' = result
    /\ UNCHANGED <<prog, device, params, rulebase, loaded, rulelist, idx, hitbase, sec_rule>>

\* get_rulebase(device, devicegroup): the rules of the device's rulebase
get_rulebase(rules) == rules

\* panos_query main, lines 302-306
QueryRulebase ==
    /\ prog = "query" /\ pc = "rulebase"
    /\ rulelist' = get_rulebase(rulebase)
    /\ loaded' = TRUE
    /\ hitbase' = <<>>
    /\ pc' = "loop"
    /\ UNCHANGED <<prog, device, params, rulebase, dev_group, idx, sec_rule, result>>

\* how the run ends when an iteration leaves the loop: `return True` of line 419
\* reports nothing, an exception is not caught
StopResult(stop) ==
    IF stop = "return"
    THEN Result("return", <<>>, <<>>, FALSE)
    ELSE Result("exception", <<stop>>, <<>>, FALSE)

\* panos_query main, lines 309-424: one iteration of the loop
QueryRule ==
    /\ prog = "query" /\ pc = "loop" /\ idx < Len(rulelist)
    /\ LET rule == rulelist[idx + 1]
           hitlist == Evaluated(device, dev_group, params, rule)
           stop == Stopped(hitlist, 1)
       IN
       /\ idx' = idx + 1
       /\ IF stop = NoStr
          THEN /\ hitbase' = AddHit(hitbase, hitlist, rule)
               /\ UNCHANGED <<pc, result>>
          ELSE /\ hitbase' = hitbase
               /\ pc' = "done"
               /\ result' = StopResult(stop)
    /\ UNCHANGED <<prog, device, params, rulebase, dev_group, loaded, rulelist, sec_rule>>

MatchedMsg(hits, total) == <<ToString(hits), " of ", ToString(total), " rules matched">>

\* lines 426-434: the hit rulebase is dumped, or the run fails
Dump(hits, rules) ==
    IF hits # <<>>
    THEN Result("exit_json", MatchedMsg(Len(hits), Len(rules)), hits, FALSE)
    ELSE Result("fail_json", <<"No matching rules found.">>, <<>>, FALSE)

\* panos_query main, lines 426-434
QueryDump ==
    /\ prog = "query" /\ pc = "loop" /\ idx = Len(rulelist)
    /\ pc' = "done"
    /\ result' = Dump(hitbase, rulelist)
    /\ UNCHANGED <<prog, device, params, rulebase, dev_group, loaded, rulelist, idx,
                   hitbase, sec_rule>>

(***************************************************************************)
(* panos_add_rule.py                                                       *)
(***************************************************************************)
ProfileNames == {NoStr, "default"}

AddRuleParams ==
    [ rule_name : {"new-rule"},
      tag : {NoStr, "prod"},
      group_profile : {NoStr, "best-practice"},
      antivirus : ProfileNames,
      vulnerability : ProfileNames,
      spyware : ProfileNames,
      url_filtering : ProfileNames,
      file_blocking : ProfileNames,
      data_filtering : ProfileNames,
      wildfire_analysis : ProfileNames,
      devicegroup : DeviceGroupNames ]

InitAddRule ==
    /\ prog = "add_rule"
    /\ device \in {Firewall, Panorama}
    /\ params \in AddRuleParams
    /\ rulebase \in {rb \in Rulebases : Len(rb) <= 1}
    /\ pc = "validate"
    /\ dev_group = NoStr
    /\ loaded = FALSE
    /\ rulelist = <<>>
    /\ idx = 0
    /\ hitbase = <<>>
    /\ sec_rule = <<>>
    /\ result = NoResult

\* devicegroup_exists(device, devicegroup)
RECURSIVE ExistsFrom(_, _)
ExistsFrom(devicegroup, i) ==
    IF i > Len(DeviceList) THEN FALSE
    ELSE IF DeviceList[i].cls = "DeviceGroup" /\ DeviceList[i].name = devicegroup
         THEN TRUE
         ELSE ExistsFrom(devicegroup, i + 1)

devicegroup_exists(devicegroup) == ExistsFrom(devicegroup, 1)

\* panos_add_rule main, lines 416-424
AddValidate ==
    /\ prog = "add_rule" /\ pc = "validate"
    /\ IF device = Panorama /\ ~devicegroup_exists(params.devicegroup)
       THEN /\ pc' = "done"
            /\ result' = Result("fail_json", NotFoundMsg(params.devicegroup), <<>>, FALSE)
       ELSE /\ pc' = "rulebase"
            /\ result' = result
    /\ UNCHANGED <<prog, device, params, rulebase, dev_group, loaded, rulelist, idx,
                   hitbase, sec_rule>>

\* panos_add_rule main, lines 426-427
AddRulebase ==
    /\ prog = "add_rule" /\ pc = "rulebase"
    /\ rulelist' = get_rulebase(rulebase)
    /\ loaded' = TRUE
    /\ pc' = "create"
    /\ UNCHANGED <<prog, device, params, rulebase, dev_group, idx, hitbase, sec_rule, result>>

\* the keyword arguments main passes at lines 434-459: every key, always
Kwargs(p) ==
    [ rule_name |-> p.rule_name, tag |-> p.tag, from_zone |-> <<"any">>,
      to_zone |-> <<"any">>, source |-> <<ANY>>, destination |-> <<ANY>>,
      service |-> <<"application-default">>, group_profile |-> p.group_profile,
      antivirus |-> p.antivirus, vulnerability |-> p.vulnerability,
      spyware |-> p.spyware, url_filtering |-> p.url_filtering,
      file_blocking |-> p.file_blocking, data_filtering |-> p.data_filtering,
      wildfire_analysis |-> p.wildfire_analysis ]

\* create_security_rule(**kwargs); a field the function does not set is None ("")
create_security_rule(kwargs) ==
    LET has(k) == k \in DOMAIN kwargs
        grouped == has("group_profile")
        set(k) == IF ~grouped /\ has(k) THEN kwargs[k] ELSE NoStr
    IN
    [ name |-> kwargs.rule_name, fromzone |-> kwargs.from_zone, tozone |-> kwargs.to_zone,
      source |-> kwargs.source, destination |-> kwargs.destination,
      service |-> kwargs.service,
      tag |-> IF has("tag") THEN kwargs.tag ELSE NoStr,
      group |-> IF grouped THEN kwargs.group_profile ELSE NoStr,
      virus |-> set("antivirus"),
      vulnerability |-> set("vulnerability"),
      spyware |-> set("spyware"),
      url_filtering |-> set("url_filtering"),
      file_blocking |-> set("file_blocking"),
      data_filtering |-> set("data_filtering"),
      wildfire_analysis |-> set("wildfire_analysis") ]

\* AddCreate without the except clause of line 461: the run goes on to line 464
AddCreate_error_ignored ==
    /\ prog = "add_rule" /\ pc = "create"
    /\ sec_rule' = <<create_security_rule(Kwargs(params))>>
    /\ rulelist' = rulelist \o sec_rule'
    /\ pc' = "done"
    /\ \E api_error \in BOOLEAN :
         /\ rulebase' = IF api_error THEN rulebase ELSE rulebase \o sec_rule'
         /\ result' = Result("exit_json",
                             <<"Rule '", params.rule_name, "' successfully added">>,
                             <<>>, TRUE)
    /\ UNCHANGED <<prog, device, params, dev_group, loaded, idx, hitbase>>

\* panos_add_rule main, lines 433-464, with add_rule (lines 337-343).  The device
\* accepts sec_rule.create() or the call raises PanXapiError.
AddCreate ==
    /\ prog = "add_rule" /\ pc = "create"
    /\ sec_rule' = <<create_security_rule(Kwargs(params))>>
    /\ rulelist' = rulelist \o sec_rule'
    /\ pc' = "done"
    /\ \E api_error \in BOOLEAN :
         IF api_error
         THEN /\ rulebase' = rulebase
              /\ result' = Result("fail_json", <<"PanXapiError">>, <<>>, FALSE)
         ELSE /\ rulebase' = rulebase \o sec_rule'
              /\ result' = Result("exit_json",
                                  <<"Rule '", params.rule_name, "' successfully added">>,
                                  <<>>, TRUE)
    /\ UNCHANGED <<prog, device, params, dev_group, loaded, idx, hitbase>>

Init == InitQuery \/ InitQueryMalformed \/ InitAddRule

Next ==
    \/ QueryValidate \/ QueryRulebase \/ QueryRule \/ QueryDump
    \/ AddValidate \/ AddRulebase \/ AddCreate

Spec == Init /\ [][Next]_vars

(***************************************************************************)
(* addr_in_obj and port_in_svc called on their own.                        *)
(***************************************************************************)
UnitAddrs ==
    { Ip(<<10, 0, c, d>>) : c \in {0, 1}, d \in {0, 5, 9, 10, 15, 20, 21, 255} }
    \cup { Ip(<<10, 0, 0, 256>>), Cidr(<<10, 0, 0, 5>>, 32), Name("bogus") }

UnitAddrObjs ==
    { GlobalAddresses[i] : i \in 1..Len(GlobalAddresses) }
    \cup { GroupAddresses("DeviceGroupA")[i] : i \in 1..Len(GroupAddresses("DeviceGroupA")) }
    \cup { AddressObject("lan", "ip-netmask", Cidr(<<10, 0, 0, 0>>, 24)),
           AddressObject("range", "ip-range", Range(<<10, 0, 0, 10>>, <<10, 0, 0, 20>>)),
           AddressObject("host", "ip-netmask", Ip(<<10, 0, 1, 15>>)),
           AddressObject("pair", "ip-netmask", Cidr(<<10, 0, 1, 20>>, 31)),
           AddressObject("iface", "ip-netmask", Cidr(<<10, 0, 0, 5>>, 24)),
           AddressObject("one", "ip-range", Range(<<10, 0, 1, 9>>, <<10, 0, 1, 10>>)),
           FalseObj }

UnitPorts ==
    { <<"4","4","3">>, <<"0","4","4","3">>, <<"8","0","0","0">>, <<"8","0","5","0">>,
      <<"8","1","0","0">>, <<"8","1","0","1">>, <<"5","3">>, <<"1","0","2","4">>,
      <<"2","0","0","0">>, <<"2","0","4","8">>, <<"8","0">>, <<"h","t","t","p">> }

UnitServices ==
    { GlobalServices[i] : i \in 1..Len(GlobalServices) }
    \cup { GroupServices("DeviceGroupA")[i] : i \in 1..Len(GroupServices("DeviceGroupA")) }
    \cup { ServiceObject("two", "tcp", <<"8","0",",","4","4","3">>,
                         <<"7","9","-","8","1",",","5","3">>),
           FalseObj }

\* the device and the dev_group main can hold once validation has passed
UnitScopes ==
    { <<Firewall, NoStr>>, <<Panorama, NoStr>>, <<Panorama, "DeviceGroupA">>,
      <<Panorama, "DeviceGroupC">> }

\* the names of the address objects, and of the address groups, of the snapshot
UnitObjectNames ==
    { o.name : o \in { x \in UnitAddrObjs : x.cls = "AddressObject" } }

UnitGroupNames ==
    { o.name : o \in { x \in UnitAddrObjs : x.cls = "AddressGroup" } }

UnitServiceNames == {"svc-hi", "svc-web", "svc-grp", "dg-svc", "no-svc"}

UnitTagNames == {"prod", "test", "dg-tag", "no-tag"}

InitUnit ==
    /\ prog = "unit"
    /\ \/ /\ device = Firewall /\ dev_group = NoStr
          /\ \/ params \in [fn : {"addr_in_obj"}, addr : UnitAddrs, obj : UnitAddrObjs]
             \/ params \in [fn : {"port_in_svc"}, orientation : {"source", "destination"},
                            port : UnitPorts, protocol : {"tcp", "udp", NoStr},
                            obj : UnitServices]
       \/ /\ \E scope \in UnitScopes : device = scope[1] /\ dev_group = scope[2]
          /\ \/ params \in [fn : {"ip_match"}, addr : UnitAddrs,
                            direct : UnitObjectNames, group : UnitGroupNames]
             \/ params \in [fn : {"lookup"}, kind : {"address"},
                            name : UnitObjectNames \cup UnitGroupNames
                                       \cup {Name("bogus")}]
             \/ params \in [fn : {"lookup"}, kind : {"service"}, name : UnitServiceNames]
             \/ params \in [fn : {"lookup"}, kind : {"tag"}, name : UnitTagNames]
    /\ rulebase = <<>>
    /\ pc = "call"
    /\ loaded = FALSE
    /\ rulelist = <<>>
    /\ idx = 0
    /\ hitbase = <<>>
    /\ sec_rule = <<>>
    /\ result = NoResult

\* what a call gave: the value returned, or the exception raised
Returned(r) ==
    IF IsOutcome(r) THEN Result("return", <<r>>, <<>>, FALSE)
    ELSE Result("exception", <<r>>, <<>>, FALSE)

CallAddrInObj ==
    /\ prog = "unit" /\ pc = "call" /\ params.fn = "addr_in_obj"
    /\ result' = Returned(addr_in_obj(params.addr, params.obj))
    /\ pc' = "done"
    /\ UNCHANGED <<prog, device, params, rulebase, dev_group, loaded, rulelist, idx,
                   hitbase, sec_rule>>

CallPortInSvc ==
    /\ prog = "unit" /\ pc = "call" /\ params.fn = "port_in_svc"
    /\ result' = Returned(port_in_svc(params.orientation, params.port, params.protocol,
                                      params.obj))
    /\ pc' = "done"
    /\ UNCHANGED <<prog, device, params, rulebase, dev_group, loaded, rulelist, idx,
                   hitbase, sec_rule>>

\* a rule whose source and destination lists are the one token
OneAddressRule(token) ==
    SecurityRule("one-address", <<"any">>, <<"any">>, <<token>>, <<token>>, <<"any">>, <<>>)

\* the IP criteria (lines 332-372) of a rule naming params.direct and of a rule
\* naming params.group, source then destination
CallIpMatch ==
    /\ prog = "unit" /\ pc = "call" /\ params.fn = "ip_match"
    /\ result' = Result("return",
                        << source_ip_match(device, dev_group, OneAddressRule(params.direct),
                                           params.addr),
                           source_ip_match(device, dev_group, OneAddressRule(params.group),
                                           params.addr),
                           destination_ip_match(device, dev_group,
                                                OneAddressRule(params.direct), params.addr),
                           destination_ip_match(device, dev_group,
                                                OneAddressRule(params.group), params.addr) >>,
                        <<>>, FALSE)
    /\ pc' = "done"
    /\ UNCHANGED <<prog, device, params, rulebase, dev_group, loaded, rulelist, idx,
                   hitbase, sec_rule>>

\* what a lookup hands back: the object found, False, or the exception raised
Looked(obj) ==
    IF obj.cls = "raise" THEN Result("exception", <<obj.exc>>, <<>>, FALSE)
    ELSE Result("return", <<obj>>, <<>>, FALSE)

\* get_object, get_service or get_tag called as main calls them
CallLookup ==
    /\ prog = "unit" /\ pc = "call" /\ params.fn = "lookup"
    /\ result' = Looked(CASE params.kind = "address" ->
                                 get_object(device, dev_group, params.name)
                          [] params.kind = "service" ->
                                 get_service(device, dev_group, params.name)
                          [] params.kind = "tag" ->
                                 get_tag(device, dev_group, params.name))
    /\ pc' = "done"
    /\ UNCHANGED <<prog, device, params, rulebase, dev_group, loaded, rulelist, idx,
                   hitbase, sec_rule>>

NextUnit == CallAddrInObj \/ CallPortInSvc \/ CallIpMatch \/ CallLookup

UnitSpec == InitUnit /\ [][NextUnit]_vars

(***************************************************************************)
(* Properties.                                                             *)
(***************************************************************************)
\* a query run that passed device-group validation and has ended
QueryEnded == prog = "query" /\ pc = "done" /\ loaded

\* the tag criterion as specified: some tag name on the rule resolves to a tag
\* whose name is the queried tag
TagCriterion(rule) ==
    \E k \in 1..Len(rule.tag) :
        LET obj == get_tag(device, dev_group, rule.tag[k]) IN
        obj.cls = "Tag" /\ obj.name = params.tag

\* every supplied criterion other than the tag matches the rule
OthersMatch(rule) ==
    /\ params.source_zone # NoStr => source_zone_match(rule, params.source_zone) = "True"
    /\ params.destination_zone # NoStr =>
           destination_zone_match(rule, params.destination_zone) = "True"
    /\ params.source_ip # NoText =>
           source_ip_match(device, dev_group, rule, params.source_ip) = "True"
    /\ params.destination_ip # NoText =>
           destination_ip_match(device, dev_group, rule, params.destination_ip) = "True"
    /\ params.source_port # NoPort =>
           source_port_match(device, dev_group, rule, params.source_port,
                             params.protocol) = "True"
    /\ params.destination_port # NoPort =>
           destination_port_match(device, dev_group, rule, params.destination_port,
                                  params.protocol) = "True"

AllSuppliedMatch(rule) == OthersMatch(rule) /\ (params.tag # NoStr => TagCriterion(rule))

\* C1: in the rule query, every rule the loop has taken up is collected as a hit
\* if and only if every supplied criterion matches it; a criterion that is not
\* supplied does not count.
C1_HitIffAllSuppliedMatch ==
    (prog = "query" /\ loaded) =>
        \A i \in 1..idx : InList(hitbase, rulelist[i]) <=> AllSuppliedMatch(rulelist[i])

\* C2: a query run that passed device-group validation ends with exactly one of
\* two results: success with the matching rules and the count summary when some
\* rule is a hit, or the failure 'No matching rules found.' when none is.
C2_RunReportsOneResult ==
    QueryEnded =>
        \/ /\ result.kind = "exit_json"
           /\ hitbase # <<>>
           /\ result.stdout = hitbase
           /\ result.msg = MatchedMsg(Len(hitbase), Len(rulebase))
        \/ /\ result.kind = "fail_json"
           /\ hitbase = <<>>
           /\ result.msg = <<"No matching rules found.">>

\* C3: with a tag criterion supplied, a rule some tag name of which resolves to a
\* tag named as queried, and which every other supplied criterion matches, is
\* among the hits the run reports.
C3_TagMatchIsReported ==
    (QueryEnded /\ params.tag # NoStr) =>
        \A i \in 1..idx :
            (TagCriterion(rulelist[i]) /\ OthersMatch(rulelist[i]))
                => (result.kind = "exit_json" /\ InList(result.stdout, rulelist[i]))

\* the names of the device groups the manager knows
KnownGroups ==
    { DeviceList[i].name : i \in { j \in 1..Len(DeviceList) : DeviceList[j].cls = "DeviceGroup" } }

UnknownGroupSupplied ==
    device = Panorama /\ params.devicegroup # NoStr /\ params.devicegroup \notin KnownGroups

\* C4: on a manager, with a device-group name supplied that is the name of no known
\* device group, the rule creator and the rule query load no rulebase, build and
\* submit no rule and evaluate no rule, and end with a failure whose message
\* contains the group name.
C4_UnknownGroupFails ==
    (prog \in {"query", "add_rule"} /\ UnknownGroupSupplied) =>
        /\ pc \in {"validate", "done"}
        /\ pc = "validate" => ENABLED Next
        /\ ~loaded /\ rulelist = <<>> /\ idx = 0 /\ hitbase = <<>> /\ sec_rule = <<>>
        /\ prog = "add_rule" =>
               \A i \in 1..Len(rulebase) : rulebase[i].name # params.rule_name
        /\ pc = "done" => /\ result.kind = "fail_json"
                          /\ InList(result.msg, params.devicegroup)

C4_Witness ==
    /\ prog = "query" /\ device = Panorama /\ params.devicegroup = "FW-1"
    /\ pc = "done" /\ result.kind = "fail_json" /\ ~loaded
    /\ rulebase # <<>>

NoCriterion ==
    /\ params.source_zone = NoStr /\ params.destination_zone = NoStr
    /\ params.source_ip = NoText /\ params.destination_ip = NoText
    /\ params.source_port = NoPort /\ params.destination_port = NoPort
    /\ params.tag = NoStr

\* C5: a query run with no criterion supplied collects every rule of the rulebase:
\* the hits reported are the whole rulebase.
C5_NoCriterionHitsAll ==
    (prog = "query" /\ NoCriterion) =>
        /\ loaded => hitbase = SubSeq(rulebase, 1, idx)
        /\ QueryEnded =>
             /\ hitbase = rulebase
             /\ result.stdout = rulebase
             /\ rulebase # <<>> => result.kind = "exit_json"

C5_Witness ==
    /\ QueryEnded /\ NoCriterion /\ Len(rulebase) >= 2
    /\ result.kind = "exit_json" /\ result.stdout = rulebase

UnitDone(fn) == prog = "unit" /\ pc = "done" /\ params.fn = fn

\* the queried IP lies inside the network, or strictly between the bounds of the
\* range, that the Address Object stands for
InsideObject(addr, obj) ==
    /\ obj.cls = "AddressObject"
    /\ addr.form = "ip" /\ ValidOctets(addr.o)
    /\ \/ /\ obj.type = "ip-netmask"
          /\ ip_network(obj.value).ok
          /\ LET hostbits == IF obj.value.form = "cidr" THEN 32 - obj.value.len ELSE 0 IN
             PackOctets(addr.o) \div Pow2(hostbits)
                 = PackOctets(obj.value.o) \div Pow2(hostbits)
       \/ /\ obj.type = "ip-range"
          /\ obj.value.form = "range"
          /\ ValidOctets(obj.value.lo) /\ ValidOctets(obj.value.hi)
          /\ PackOctets(obj.value.lo) < PackOctets(addr.o)
          /\ PackOctets(addr.o) < PackOctets(obj.value.hi)

OnRangeBound(addr, obj) ==
    /\ obj.cls = "AddressObject" /\ obj.type = "ip-range" /\ obj.value.form = "range"
    /\ ValidOctets(obj.value.lo) /\ ValidOctets(obj.value.hi)
    /\ addr \in {Ip(obj.value.lo), Ip(obj.value.hi)}

\* C6: addr_in_obj returns True exactly when the queried IP lies inside the network
\* of an ip-netmask object, or strictly between the bounds of an ip-range object;
\* an IP equal to a bound of the range gives False.
C6_AddressContainment ==
    UnitDone("addr_in_obj") =>
        /\ result = Returned("True") <=> InsideObject(params.addr, params.obj)
        /\ OnRangeBound(params.addr, params.obj) => result = Returned("False")

C6_Witness ==
    /\ UnitDone("addr_in_obj")
    /\ params.obj.cls = "AddressObject" /\ params.obj.type = "ip-range"
    /\ params.addr = Ip(params.obj.value.lo)
    /\ result = Returned("False")

\* the port spec of the orientation; <<>> when there is none
PortSpec(orientation, obj) ==
    IF obj.cls # "ServiceObject" THEN <<>>
    ELSE IF orientation = "source" THEN obj.source_port ELSE obj.destination_port

\* the queried port equals the single port, or lies strictly between the bounds
\* of the range
ElementMatches(x, port) ==
    IF Contains(x, "-")
    THEN /\ IsNumeric(port)
         /\ IntOf(Split(x, "-")[1]) < IntOf(port)
         /\ IntOf(port) < IntOf(Split(x, "-")[2])
    ELSE x = port

OnPortBound(x, port) ==
    /\ Contains(x, "-") /\ IsNumeric(port)
    /\ IntOf(port) \in {IntOf(Split(x, "-")[1]), IntOf(Split(x, "-")[2])}

PortMatches(orientation, port, protocol, obj) ==
    /\ PortSpec(orientation, obj) # <<>>
    /\ obj.protocol = protocol
    /\ \E k \in 1..Len(Split(PortSpec(orientation, obj), ",")) :
           ElementMatches(Split(PortSpec(orientation, obj), ",")[k], port)

\* C7: port_in_svc returns True exactly when the object's protocol is the queried
\* protocol and some element of the orientation's port spec is the queried port
\* verbatim or a range the queried port lies strictly inside; for a port number
\* and a service object with that port spec, every other case returns False.
C7_PortInService ==
    UnitDone("port_in_svc") =>
        /\ result = Returned("True")
               <=> PortMatches(params.orientation, params.port, params.protocol, params.obj)
        /\ (IsNumeric(params.port) /\ PortSpec(params.orientation, params.obj) # <<>>
            /\ ~PortMatches(params.orientation, params.port, params.protocol, params.obj))
               => result = Returned("False")

C7_Witness ==
    /\ UnitDone("port_in_svc")
    /\ PortSpec(params.orientation, params.obj) # <<>>
    /\ params.protocol = params.obj.protocol
    /\ \E k \in 1..Len(Split(PortSpec(params.orientation, params.obj), ",")) :
           OnPortBound(Split(PortSpec(params.orientation, params.obj), ",")[k], params.port)
    /\ result = Returned("False")

AppDefaultOnly(rule) ==
    InList(rule.service, "application-default") /\ ~InList(rule.service, "any")

PortSupplied == params.source_port # NoPort \/ params.destination_port # NoPort

\* C8: a rule whose service list holds 'application-default' and not 'any' satisfies
\* no port criterion, whatever port and protocol are queried, and is no hit of a
\* query that supplies a port.
C8_ApplicationDefaultNeverHits ==
    (prog = "query" /\ loaded) =>
        \A i \in 1..idx :
            AppDefaultOnly(rulelist[i]) =>
                /\ PortSupplied => /\ ~InList(hitbase, rulelist[i])
                                   /\ ~InList(result.stdout, rulelist[i])
                /\ \A port \in UnitPorts, protocol \in {"tcp", "udp", NoStr} :
                       /\ source_port_match(device, dev_group, rulelist[i], port,
                                            protocol) = "False"
                       /\ destination_port_match(device, dev_group, rulelist[i], port,
                                                 protocol) = "False"

C8_Witness ==
    /\ QueryEnded /\ result.kind = "exit_json"
    /\ params.destination_port # NoPort /\ params.source_port = NoPort
    /\ params.source_zone = NoStr /\ params.destination_zone = NoStr
    /\ params.source_ip = NoText /\ params.destination_ip = NoText /\ params.tag = NoStr
    /\ \E i \in 1..idx : AppDefaultOnly(rulelist[i]) /\ ~InList(result.stdout, rulelist[i])

\* some token of the list resolves to no named object, parses as an IP network,
\* and that network holds the queried IP
LiteralHolds(tokens, addr) ==
    \E k \in 1..Len(tokens) :
        /\ get_object(device, dev_group, tokens[k]) = FalseObj
        /\ ip_network(tokens[k]).ok
        /\ ip_address(addr).ok
        /\ InNetwork(ip_address(addr).v, ip_network(tokens[k]))

\* C9: an address token of a rule that resolves to no named object and parses as a
\* literal IP network makes the IP criterion of the rule true when the queried IP
\* lies inside that network.
C9_LiteralNetworkMatches ==
    (prog = "query" /\ loaded) =>
        \A i \in 1..idx :
            /\ (params.source_ip # NoText
                /\ LiteralHolds(rulelist[i].source, params.source_ip))
                   => source_ip_match(device, dev_group, rulelist[i],
                                      params.source_ip) = "True"
            /\ (params.destination_ip # NoText
                /\ LiteralHolds(rulelist[i].destination, params.destination_ip))
                   => destination_ip_match(device, dev_group, rulelist[i],
                                           params.destination_ip) = "True"

\* the name resolves, through at most depth groups, to an Address Object that
\* holds the queried IP
RECURSIVE ResolvesInside(_, _, _)
ResolvesInside(name, addr, depth) ==
    LET obj == get_object(device, dev_group, name) IN
    IF obj.cls = "AddressObject" THEN addr_in_obj(addr, obj) = "True"
    ELSE IF obj.cls = "AddressGroup" /\ depth > 0
         THEN \E k \in 1..Len(obj.static_value) :
                  ResolvesInside(obj.static_value[k], addr, depth - 1)
         ELSE FALSE

GroupHolds(tokens, addr) ==
    \E k \in 1..Len(tokens) :
        /\ get_object(device, dev_group, tokens[k]).cls = "AddressGroup"
        /\ ResolvesInside(tokens[k], addr, Len(GlobalAddresses))

\* C10: an address token of a rule that resolves to an Address Group makes the IP
\* criterion true when some member, resolved recursively at any depth, holds the
\* queried IP.
C10_NestedGroupMatches ==
    (prog = "query" /\ loaded) =>
        \A i \in 1..idx :
            /\ (params.source_ip # NoText
                /\ GroupHolds(rulelist[i].source, params.source_ip))
                   => source_ip_match(device, dev_group, rulelist[i],
                                      params.source_ip) = "True"
            /\ (params.destination_ip # NoText
                /\ GroupHolds(rulelist[i].destination, params.destination_ip))
                   => destination_ip_match(device, dev_group, rulelist[i],
                                           params.destination_ip) = "True"

\* in the scope of the run, group resolves to an Address Group whose sole member
\* is direct, and direct resolves to an Address Object
SoleMember(group, direct) ==
    /\ get_object(device, dev_group, group).cls = "AddressGroup"
    /\ get_object(device, dev_group, group).static_value = <<direct>>
    /\ get_object(device, dev_group, direct).cls = "AddressObject"

\* C11: for every queried IP and every Address Object A, a rule whose address list
\* is one Address Group with sole member A has the same IP criterion, source and
\* destination, as a rule whose address list names A.
C11_SoleMemberGroupAsObject ==
    (UnitDone("ip_match") /\ SoleMember(params.group, params.direct)) =>
        /\ result.msg[1] = result.msg[2]
        /\ result.msg[3] = result.msg[4]

C11_Witness ==
    /\ UnitDone("ip_match") /\ SoleMember(params.group, params.direct)
    /\ device = Panorama /\ params.group = Name("only-dg")
    /\ result.msg = <<"True", "True", "True", "True">>

\* the rule field create_security_rule assigns from each individual profile
\* parameter (lines 320-333)
ProfileField(r, k) ==
    CASE k = "antivirus" -> r.virus
      [] k = "vulnerability" -> r.vulnerability
      [] k = "spyware" -> r.spyware
      [] k = "url_filtering" -> r.url_filtering
      [] k = "file_blocking" -> r.file_blocking
      [] k = "data_filtering" -> r.data_filtering
      [] k = "wildfire_analysis" -> r.wildfire_analysis

IndividualProfiles ==
    { "antivirus", "vulnerability", "spyware", "url_filtering", "file_blocking",
      "data_filtering", "wildfire_analysis" }

\* C12: the rule the rule creator builds has, when a group profile is supplied,
\* that group and none of the seven individual profiles; when no group profile is
\* supplied, every individual profile the caller supplied, under the supplied name.
C12_ProfilesOnRule ==
    (prog = "add_rule" /\ sec_rule # <<>>) =>
        IF params.group_profile # NoStr
        THEN /\ sec_rule[1].group = params.group_profile
             /\ \A k \in IndividualProfiles : ProfileField(sec_rule[1], k) = NoStr
        ELSE \A k \in IndividualProfiles :
                 params[k] # NoStr => ProfileField(sec_rule[1], k) = params[k]

\* the success result of line 464
SuccessResult ==
    Result("exit_json", <<"Rule '", params.rule_name, "' successfully added">>, <<>>, TRUE)

\* the step of lines 433-464: the rule is built, added and submitted
CreateStep == prog = "add_rule" /\ pc = "create" /\ pc' = "done"

\* C13: when building or submitting the rule raises the API error (the device's
\* rulebase is left as it was), the run ends with the failure result carrying the
\* error's message and never with the success result; the success result is
\* reported only when the rule was appended to the rulebase and created on the
\* device.
C13_ErrorNeverSuccess ==
    [][CreateStep =>
         /\ rulebase' = rulebase =>
              /\ result'.kind = "fail_json"
              /\ result'.msg = <<"PanXapiError">>
              /\ result' # SuccessResult
         /\ result'.kind = "exit_json" =>
              /\ result' = SuccessResult
              /\ rulelist' = Append(rulelist, sec_rule'[1])
              /\ rulebase' = Append(rulebase, sec_rule'[1])
         /\ result'.kind \in {"fail_json", "exit_json"}]_vars

C13_Witness ==
    /\ prog = "add_rule" /\ pc = "done" /\ sec_rule # <<>>
    /\ result = Result("fail_json", <<"PanXapiError">>, <<>>, FALSE)
    /\ rulelist = <<sec_rule[1]>> /\ rulebase = <<>>

\* a supplied queried IP that is no address, a supplied queried port that is no
\* number
MalformedIp(addr) == addr # NoText /\ ~ip_address(addr).ok

MalformedPort(port) == port # NoPort /\ ~IsNumeric(port)

MalformedSupplied ==
    \/ MalformedIp(params.source_ip) \/ MalformedIp(params.destination_ip)
    \/ MalformedPort(params.source_port) \/ MalformedPort(params.destination_port)

\* a rule address token that is neither a resolvable object nor a valid network
Unparseable(token) ==
    get_object(device, dev_group, token) = FalseObj /\ ~ip_network(token).ok

\* C14: a malformed literal is absorbed as no match, never surfaced as an error: a
\* rule address token that is neither a resolvable object nor a valid network, a
\* queried IP that is no address and a queried port that is no number leave the
\* criterion they affect at no match, without raising the parse error, and the run
\* ends with the matched or the no-matching-rules result.
C14_MalformedInputIsNoMatch ==
    (prog = "query" /\ loaded) =>
        /\ \A i \in 1..Len(rulelist) :
             LET rule == rulelist[i] IN
             /\ \A j \in 1..Len(rule.source) :
                  (params.source_ip # NoText /\ ~MalformedIp(params.source_ip)
                   /\ Unparseable(rule.source[j])) =>
                      AddressToken(device, dev_group, params.source_ip, rule.source[j])
                          = "False"
             /\ MalformedIp(params.source_ip) =>
                  source_ip_match(device, dev_group, rule, params.source_ip) # "ValueError"
             /\ MalformedIp(params.destination_ip) =>
                  destination_ip_match(device, dev_group, rule, params.destination_ip)
                      # "ValueError"
             /\ MalformedPort(params.source_port) =>
                  source_port_match(device, dev_group, rule, params.source_port,
                                    params.protocol) # "ValueError"
             /\ MalformedPort(params.destination_port) =>
                  destination_port_match(device, dev_group, rule, params.destination_port,
                                         params.protocol) # "ValueError"
        /\ (pc = "done" /\ MalformedSupplied) =>
               result # Result("exception", <<"ValueError">>, <<>>, FALSE)

\* the objects of a kind that a scope defines under a name
Defined(children, name) ==
    { children[i] : i \in { j \in 1..Len(children) : children[j].name = name } }

GlobalScope(kind) ==
    CASE kind = "address" -> GlobalAddresses
      [] kind = "service" -> GlobalServices
      [] kind = "tag" -> GlobalTags

GroupScope(kind, group) ==
    CASE kind = "address" -> GroupAddresses(group)
      [] kind = "service" -> GroupServices(group)
      [] kind = "tag" -> GroupTags(group)

\* C15: a lookup of an address, service or tag name consults the global scope
\* first and the device-group scope second: a name the global scope defines
\* resolves to the global definition, also when the device group defines it too; a
\* name only the device group defines resolves to that definition, and only on a
\* manager; on a standalone firewall the device-group scope is not consulted.
C15_GlobalThenGroup ==
    UnitDone("lookup") =>
        LET global == Defined(GlobalScope(params.kind), params.name)
            group == Defined(GroupScope(params.kind, dev_group), params.name)
            anygroup == Defined(GroupScope(params.kind, "DeviceGroupA"), params.name)
        IN
        /\ global # {} => result.kind = "return" /\ result.msg[1] \in global
        /\ (global = {} /\ device = Firewall) =>
               result.kind = "return" /\ result.msg[1] = FalseObj
        /\ (global = {} /\ device = Panorama /\ dev_group # NoStr) =>
               /\ result.kind = "return"
               /\ IF group # {} THEN result.msg[1] \in group ELSE result.msg[1] = FalseObj
        /\ (result.kind = "return" /\ result.msg[1] \in anygroup \ global) =>
               device = Panorama

C15_Witness ==
    /\ UnitDone("lookup") /\ device = Panorama /\ dev_group = "DeviceGroupA"
    /\ params.kind = "tag" /\ params.name = "prod"
    /\ Tag("prod", "green") \in Defined(GroupTags(dev_group), params.name)
    /\ result.msg = <<Tag("prod", "red")>>

\* the hitlist of each rule of a list (lines 310-421), in the list's order
RECURSIVE Hitlists(_, _)
Hitlists(rules, i) ==
    IF i > Len(rules) THEN <<>>
    ELSE <<Evaluated(device, dev_group, params, rules[i])>> \o Hitlists(rules, i + 1)

\* main's loop and dump (lines 309-434) over the rules taken in the order
\* order[1], order[2], ..., from position i on; hitlists[k] is the hitlist of
\* rules[k]
RECURSIVE RunFrom(_, _, _, _, _)
RunFrom(rules, hitlists, order, i, hits) ==
    IF i > Len(order) THEN Dump(hits, rules)
    ELSE LET stop == Stopped(hitlists[order[i]], 1) IN
         IF stop # NoStr THEN StopResult(stop)
         ELSE RunFrom(rules, hitlists, order, i + 1,
                      AddHit(hits, hitlists[order[i]], rules[order[i]]))

\* the orders in which a rulebase may hold n rules
Orderings(n) == Permutations(1..n)

\* what a run reports: success with the set of hits, 'no matching rules', or
\* nothing when the run ended without a result
Reported(r) ==
    [ outcome |-> CASE r.kind = "exit_json" -> "success"
                    [] r.kind = "fail_json" -> "no matching rules"
                    [] OTHER -> "nothing",
      hits |-> { r.stdout[i] : i \in 1..Len(r.stdout) } ]

\* C16: for a fixed snapshot and fixed criteria, the set of rules reported as hits
\* and whether the run reports success or 'no matching rules' are the same for
\* every ordering of the rules of the rulebase.
C16_OrderIndependent ==
    QueryEnded =>
        LET hitlists == Hitlists(rulelist, 1)
            asheld == [i \in 1..Len(rulelist) |-> i]
        IN
        /\ RunFrom(rulelist, hitlists, asheld, 1, <<>>) = result
        /\ \A order \in Orderings(Len(rulelist)) :
               Reported(RunFrom(rulelist, hitlists, order, 1, <<>>)) = Reported(result)

C16_Witness ==
    /\ QueryEnded /\ Len(rulelist) = 2
    /\ result.kind = "exit_json" /\ hitbase = <<rulelist[2]>>
    /\ RunFrom(rulelist, Hitlists(rulelist, 1), <<2, 1>>, 1, <<>>).stdout = <<rulelist[2]>>

\* a run against the manager with no device group supplied, its rules loaded
ManagerWithoutGroup ==
    prog = "query" /\ device = Panorama /\ params.devicegroup = NoStr /\ loaded

\* the name is absent from the global scope of its kind
NotGlobal(kind, name) == Defined(GlobalScope(kind), name) = {}

\* C17: in a query against the manager with no device group supplied, name
\* resolution uses the global scope only: a name absent from the global scope is
\* unresolved, contributing no match, and does not make the run fail.
C17_NoGroupGlobalOnly ==
    ManagerWithoutGroup =>
        /\ \A i \in 1..Len(rulelist) :
             LET rule == rulelist[i] IN
             /\ (params.source_ip # NoText /\ ~InList(rule.source, ANY)) =>
                  \A j \in 1..Len(rule.source) :
                      NotGlobal("address", rule.source[j]) =>
                          get_object(device, dev_group, rule.source[j]) = FalseObj
             /\ (params.destination_ip # NoText /\ ~InList(rule.destination, ANY)) =>
                  \A j \in 1..Len(rule.destination) :
                      NotGlobal("address", rule.destination[j]) =>
                          get_object(device, dev_group, rule.destination[j]) = FalseObj
             /\ (params.destination_port # NoPort /\ ~InList(rule.service, "any")
                 /\ ~InList(rule.service, "application-default")) =>
                  \A j \in 1..Len(rule.service) :
                      NotGlobal("service", rule.service[j]) =>
                          get_service(device, dev_group, rule.service[j]) = FalseObj
             /\ params.tag # NoStr =>
                  \A j \in 1..Len(rule.tag) :
                      NotGlobal("tag", rule.tag[j]) =>
                          get_tag(device, dev_group, rule.tag[j]) = FalseObj
        /\ (pc = "done" /\ params.source_port = NoPort) =>
               result # Result("exception", <<"AttributeError">>, <<>>, FALSE)

=============================================================================
